---- MODULE Spec2Model ----
(***************************************************************************)
(* Model of the /identify handler of src/server/index.js: the Contact      *)
(* table, and the handler as a sequence of store operations (one action    *)
(* per awaited db call, with the synchronous code that follows it).        *)
(*                                                                         *)
(* Spec      : requests run one at a time, each to completion.             *)
(* SpecConc  : two requests interleave at their await points.              *)
(*                                                                         *)
(* updatedAt and deletedAt are not modelled: no statement checked here     *)
(* reads them and the handler never reads them either.                     *)
(***************************************************************************)
EXTENDS Integers, Sequences, FiniteSets, TLC

VARIABLES
    contacts,        \* the Contact table, a sequence of rows in rowid order
    now,             \* the wall clock read by new Date()
    pc,              \* pc[p]: where request p stands in the handler
    req,             \* req[p]: the body of the request, [email, phoneNumber]
    pre,             \* pre[p]: the table when request p arrived (history)
    log,             \* log[p]: the store operations issued by request p, in order (history)
    first,           \* first[p]: the previous response, when request p repeats the previous request (history)
    primaryIds,      \* primaryIds[p]: the Set built at lines 71-78
    primaries,       \* primaries[p]: the rows fetched at lines 82-84
    idx,             \* idx[p]: position of the merge loop in primaries[p]
    existingEmails,  \* existingEmails[p]: the Set of line 116, in insertion order
    existingPhones,  \* existingPhones[p]: the Set of line 117, in insertion order
    hasNewData,      \* hasNewData[p]: lines 119-121
    res,             \* res[p]: the response sent by request p
    overlaps         \* requests that arrived while another was in flight (history)

vars == <<contacts, now, pc, req, pre, log, first, primaryIds, primaries, idx,
          existingEmails, existingPhones, hasNewData, res, overlaps>>

----------------------------------------------------------------------------
(* Bounds *)

MaxRows == 4
MaxClock == 2
MaxOverlaps == 1

Procs == {1, 2}

\* undefined / null in JavaScript, NULL in SQL
Nil == "nil"
\* NULL in the integer column linkedId
NoId == 0

\* Values a request may carry in each field: absent, the empty string, data.
EmailVals == {Nil, "", "a", "b"}
PhoneVals == {Nil, "1", "2"}

\* The values carried by the requests that run concurrently or may fail.
ConcEmailVals == {Nil, "a", "b"}
ConcPhoneVals == {Nil, "1"}

----------------------------------------------------------------------------
(* JavaScript and SQL helpers *)

\* Variant: only an absent value is falsy.
Falsy_NilOnly(v) == v = Nil

\* !v for the values above
Falsy(v) == v \in {Nil, ""}

\* col = ? in SQL: NULL equals nothing
SqlEq(col, param) == col # Nil /\ param # Nil /\ col = param

\* linkedId = ? in SQL
SqlIdEq(col, param) == col # NoId /\ param # NoId /\ col = param

\* arr.filter(Boolean)
RECURSIVE FilterBoolean(_)
FilterBoolean(s) ==
    IF s = <<>> THEN <<>>
    ELSE IF Falsy(Head(s)) THEN FilterBoolean(Tail(s))
         ELSE <<Head(s)>> \o FilterBoolean(Tail(s))

Range(s) == {s[k] : k \in DOMAIN s}

\* Variant: the values are pushed on an array, duplicates included.
SetAdd_Push(s, v) == Append(s, v)

\* set.add(v) on a Set kept in insertion order
SetAdd(s, v) == IF v \in Range(s) THEN s ELSE Append(s, v)

\* new Set(arr), in insertion order
RECURSIVE NewSetFrom(_, _)
NewSetFrom(acc, s) ==
    IF s = <<>> THEN acc ELSE NewSetFrom(SetAdd(acc, Head(s)), Tail(s))

NewSet(s) == NewSetFrom(<<>>, s)

MapEmail(rows) == [k \in DOMAIN rows |-> rows[k].email]
MapPhone(rows) == [k \in DOMAIN rows |-> rows[k].phoneNumber]
MapId(rows) == [k \in DOMAIN rows |-> rows[k].id]

----------------------------------------------------------------------------
(* Store primitives *)

\* Variant: ... WHERE email = ? AND phoneNumber = ?
SelectMatching_And(cs, email, phoneNumber) ==
    SelectSeq(cs, LAMBDA c : SqlEq(c.email, email) /\ SqlEq(c.phoneNumber, phoneNumber))

\* SELECT * FROM Contact WHERE email = ? OR phoneNumber = ?
SelectMatching(cs, email, phoneNumber) ==
    SelectSeq(cs, LAMBDA c : SqlEq(c.email, email) \/ SqlEq(c.phoneNumber, phoneNumber))

\* Variant: every matched row counts as its own root.
RootId_Self(c) == c.id

\* the forEach of lines 72-78
RootId(c) == IF c.linkPrecedence = "primary" THEN c.id ELSE c.linkedId

PrimaryIdsOf(matchingContacts) == {RootId(matchingContacts[k]) : k \in DOMAIN matchingContacts}

\* SELECT * FROM Contact WHERE id IN (...)
SelectByIds(cs, ids) == {cs[k] : k \in {j \in DOMAIN cs : cs[j].id \in ids}}

\* Variant: ... ORDER BY createdAt DESC
OrderedByCreatedAt_Desc(rows) ==
    {s \in [1..Cardinality(rows) -> rows] :
        /\ \A j, k \in DOMAIN s : j # k => s[j] # s[k]
        /\ \A j, k \in DOMAIN s : j < k => s[j].createdAt >= s[k].createdAt}

\* ... ORDER BY createdAt ASC: every order of the rows that is ascending in
\* createdAt; rows with equal createdAt come in an order SQL leaves open.
OrderedByCreatedAt(rows) ==
    {s \in [1..Cardinality(rows) -> rows] :
        /\ \A j, k \in DOMAIN s : j # k => s[j] # s[k]
        /\ \A j, k \in DOMAIN s : j < k => s[j].createdAt <= s[k].createdAt}

\* Variant: the new primary is linked to itself.
InsertPrimary_SelfLinked(cs, email, phoneNumber, t) ==
    Append(cs, [id |-> Len(cs) + 1, email |-> email, phoneNumber |-> phoneNumber,
                linkedId |-> Len(cs) + 1, linkPrecedence |-> "primary", createdAt |-> t])

\* INSERT INTO Contact (email, phoneNumber, linkPrecedence, ...) VALUES (?, ?, 'primary', ...)
InsertPrimary(cs, email, phoneNumber, t) ==
    Append(cs, [id |-> Len(cs) + 1, email |-> email, phoneNumber |-> phoneNumber,
                linkedId |-> NoId, linkPrecedence |-> "primary", createdAt |-> t])

\* Variant: the row demoted is the newest primary, whatever its id.
UpdateDemote_NewestPrimary(cs, winnerId, secId) ==
    [k \in DOMAIN cs |->
        IF /\ cs[k].linkPrecedence = "primary"
           /\ \A j \in DOMAIN cs : cs[j].linkPrecedence = "primary" => cs[j].id <= cs[k].id
        THEN [cs[k] EXCEPT !.linkPrecedence = "secondary", !.linkedId = winnerId]
        ELSE cs[k]]

\* Variant: UPDATE Contact SET linkedId = ? WHERE id = ?
UpdateDemote_KeepPrecedence(cs, winnerId, secId) ==
    [k \in DOMAIN cs |->
        IF cs[k].id = secId
        THEN [cs[k] EXCEPT !.linkedId = winnerId]
        ELSE cs[k]]

\* UPDATE Contact SET linkPrecedence = 'secondary', linkedId = ? WHERE id = ?
UpdateDemote(cs, winnerId, secId) ==
    [k \in DOMAIN cs |->
        IF cs[k].id = secId
        THEN [cs[k] EXCEPT !.linkPrecedence = "secondary", !.linkedId = winnerId]
        ELSE cs[k]]

\* Variant: UPDATE Contact SET linkedId = ? (no WHERE clause)
UpdateChildren_NoWhere(cs, winnerId, secId) ==
    [k \in DOMAIN cs |-> [cs[k] EXCEPT !.linkedId = winnerId]]

\* Variant: the two parameters in the other order
UpdateChildren_Swapped(cs, winnerId, secId) ==
    [k \in DOMAIN cs |->
        IF SqlIdEq(cs[k].linkedId, winnerId)
        THEN [cs[k] EXCEPT !.linkedId = secId]
        ELSE cs[k]]

\* Variant: the children of the losing primary are left as they are.
UpdateChildren_NoRepoint(cs, winnerId, secId) == cs

\* UPDATE Contact SET linkedId = ? WHERE linkedId = ?
UpdateChildren(cs, winnerId, secId) ==
    [k \in DOMAIN cs |->
        IF SqlIdEq(cs[k].linkedId, secId)
        THEN [cs[k] EXCEPT !.linkedId = winnerId]
        ELSE cs[k]]

\* Variant: SELECT * FROM Contact WHERE id = ?
SelectLinked_PrimaryOnly(cs, primaryId) ==
    SelectSeq(cs, LAMBDA c : c.id = primaryId)

\* SELECT * FROM Contact WHERE id = ? OR linkedId = ?
SelectLinked(cs, primaryId) ==
    SelectSeq(cs, LAMBDA c : c.id = primaryId \/ SqlIdEq(c.linkedId, primaryId))

\* Variant: lines 119-121 without the tests of email and phoneNumber
HasNewData_NoFalsyCheck(email, phoneNumber, emails, phones) ==
    \/ email \notin Range(emails)
    \/ phoneNumber \notin Range(phones)

\* lines 119-121
HasNewData(email, phoneNumber, emails, phones) ==
    \/ (~Falsy(email) /\ email \notin Range(emails))
    \/ (~Falsy(phoneNumber) /\ phoneNumber \notin Range(phones))

\* INSERT INTO Contact (email, phoneNumber, linkedId, linkPrecedence, ...) VALUES (?, ?, ?, 'secondary', ...)
InsertSecondary(cs, email, phoneNumber, primaryId, t) ==
    Append(cs, [id |-> Len(cs) + 1, email |-> email, phoneNumber |-> phoneNumber,
                linkedId |-> primaryId, linkPrecedence |-> "secondary", createdAt |-> t])

\* SELECT id FROM Contact WHERE linkedId = ?
SelectSecondaries(cs, primaryId) ==
    SelectSeq(cs, LAMBDA c : SqlIdEq(c.linkedId, primaryId))

----------------------------------------------------------------------------
(* Responses *)

NoRes == [status |-> 0, primaryContatctId |-> NoId, emails |-> <<>>,
          phoneNumbers |-> <<>>, secondaryContactIds |-> <<>>]

\* res.status(400).json({ error: "Email or phoneNumber is required" })
BadRequest == [NoRes EXCEPT !.status = 400]

\* res.status(500).json({ error: "Internal Server Error" })
ServerError == [NoRes EXCEPT !.status = 500]

Ok(id, emails, phones, secondaries) ==
    [status |-> 200, primaryContatctId |-> id, emails |-> emails,
     phoneNumbers |-> phones, secondaryContactIds |-> secondaries]

----------------------------------------------------------------------------
(* The handler *)

Init ==
    /\ contacts = <<>>
    /\ now = 1
    /\ pc = [p \in Procs |-> "idle"]
    /\ req = [p \in Procs |-> [email |-> Nil, phoneNumber |-> Nil]]
    /\ pre = [p \in Procs |-> <<>>]
    /\ log = [p \in Procs |-> <<>>]
    /\ first = [p \in Procs |-> NoRes]
    /\ primaryIds = [p \in Procs |-> {}]
    /\ primaries = [p \in Procs |-> <<>>]
    /\ idx = [p \in Procs |-> 0]
    /\ existingEmails = [p \in Procs |-> <<>>]
    /\ existingPhones = [p \in Procs |-> <<>>]
    /\ hasNewData = [p \in Procs |-> FALSE]
    /\ res = [p \in Procs |-> NoRes]
    /\ overlaps = 0

Active(p) == pc[p] \notin {"idle", "done"}

\* Every request in flight may insert one row; the table holds MaxRows rows.
\* A run has at most MaxOverlaps requests that arrive while another is in
\* flight, and takes no request after the last of them.
Room == Len(contacts) + Cardinality({q \in Procs : Active(q)}) < MaxRows

\* The handler returns: its locals go out of scope.
Return(p) ==
    /\ primaryIds' = [primaryIds EXCEPT ![p] = {}]
    /\ primaries' = [primaries EXCEPT ![p] = <<>>]
    /\ idx' = [idx EXCEPT ![p] = 0]
    /\ existingEmails' = [existingEmails EXCEPT ![p] = <<>>]
    /\ existingPhones' = [existingPhones EXCEPT ![p] = <<>>]
    /\ hasNewData' = [hasNewData EXCEPT ![p] = FALSE]

\* Time passes.
Tick ==
    /\ now < MaxClock
    /\ now' = now + 1
    /\ UNCHANGED <<contacts, pc, req, pre, log, first, primaryIds, primaries, idx,
                   existingEmails, existingPhones, hasNewData, res, overlaps>>

\* lines 33-39: a request arrives and is validated
Receive(p, email, phoneNumber) ==
    /\ ~Active(p)
    /\ Room
    /\ overlaps < MaxOverlaps
    /\ overlaps' = IF \E q \in Procs : Active(q) THEN overlaps + 1 ELSE overlaps
    /\ req' = [req EXCEPT ![p] = [email |-> email, phoneNumber |-> phoneNumber]]
    /\ pre' = [pre EXCEPT ![p] = contacts]
    /\ log' = [log EXCEPT ![p] = <<>>]
    /\ first' = [first EXCEPT ![p] =
                   IF pc[p] = "done" /\ req[p] = [email |-> email, phoneNumber |-> phoneNumber]
                   THEN res[p] ELSE NoRes]
    /\ Return(p)
    /\ IF Falsy(email) /\ Falsy(phoneNumber)
       THEN /\ res' = [res EXCEPT ![p] = BadRequest]
            /\ pc' = [pc EXCEPT ![p] = "done"]
       ELSE /\ res' = [res EXCEPT ![p] = NoRes]
            /\ pc' = [pc EXCEPT ![p] = "match"]
    /\ UNCHANGED <<contacts, now>>

\* lines 44-50 and 71-78: the matcher query, then the root ids
Match(p) ==
    /\ pc[p] = "match"
    /\ LET matchingContacts == SelectMatching(contacts, req[p].email, req[p].phoneNumber)
       IN  IF Len(matchingContacts) = 0
           THEN /\ pc' = [pc EXCEPT ![p] = "insertPrimary"]
                /\ UNCHANGED primaryIds
           ELSE /\ pc' = [pc EXCEPT ![p] = "fetchPrimaries"]
                /\ primaryIds' = [primaryIds EXCEPT ![p] = PrimaryIdsOf(matchingContacts)]
    /\ log' = [log EXCEPT ![p] = Append(@, "match")]
    /\ UNCHANGED <<contacts, now, req, pre, first, primaries, idx,
                   existingEmails, existingPhones, hasNewData, res, overlaps>>

\* lines 51-64: the new-customer path
NewCustomer(p) ==
    /\ pc[p] = "insertPrimary"
    /\ contacts' = InsertPrimary(contacts, req[p].email, req[p].phoneNumber, now)
    /\ res' = [res EXCEPT ![p] =
                 Ok(Len(contacts) + 1,
                    FilterBoolean(<<req[p].email>>),
                    FilterBoolean(<<req[p].phoneNumber>>),
                    <<>>)]
    /\ pc' = [pc EXCEPT ![p] = "done"]
    /\ log' = [log EXCEPT ![p] = Append(@, "insertPrimary")]
    /\ UNCHANGED <<now, req, pre, first, primaryIds, primaries, idx,
                   existingEmails, existingPhones, hasNewData, overlaps>>

\* lines 82-92: fetch the root rows, oldest first; primaries[0] is the winner.
\* With no row fetched, primaryContact is undefined and line 112 throws.
FetchPrimaries(p) ==
    /\ pc[p] = "fetchPrimaries"
    /\ \E rows \in OrderedByCreatedAt(SelectByIds(contacts, primaryIds[p])) :
         /\ primaries' = [primaries EXCEPT ![p] = rows]
         /\ IF Len(rows) > 1
            THEN /\ pc' = [pc EXCEPT ![p] = "demote"]
                 /\ idx' = [idx EXCEPT ![p] = 2]
                 /\ UNCHANGED res
            ELSE IF Len(rows) = 1
            THEN /\ pc' = [pc EXCEPT ![p] = "reload"]
                 /\ UNCHANGED <<idx, res>>
            ELSE /\ pc' = [pc EXCEPT ![p] = "done"]
                 /\ res' = [res EXCEPT ![p] = ServerError]
                 /\ UNCHANGED idx
    /\ log' = [log EXCEPT ![p] = Append(@, "fetchPrimaries")]
    /\ UNCHANGED <<contacts, now, req, pre, first, primaryIds,
                   existingEmails, existingPhones, hasNewData, overlaps>>

\* lines 96-99: demote the losing primary primaries[idx]
Demote(p) ==
    /\ pc[p] = "demote"
    /\ contacts' = UpdateDemote(contacts, primaries[p][1].id, primaries[p][idx[p]].id)
    /\ pc' = [pc EXCEPT ![p] = "repoint"]
    /\ log' = [log EXCEPT ![p] = Append(@, "demote")]
    /\ UNCHANGED <<now, req, pre, first, primaryIds, primaries, idx,
                   existingEmails, existingPhones, hasNewData, res, overlaps>>

\* lines 101-105: re-point its children, then the next losing primary
Repoint(p) ==
    /\ pc[p] = "repoint"
    /\ contacts' = UpdateChildren(contacts, primaries[p][1].id, primaries[p][idx[p]].id)
    /\ IF idx[p] < Len(primaries[p])
       THEN /\ idx' = [idx EXCEPT ![p] = @ + 1]
            /\ pc' = [pc EXCEPT ![p] = "demote"]
       ELSE /\ UNCHANGED idx
            /\ pc' = [pc EXCEPT ![p] = "reload"]
    /\ log' = [log EXCEPT ![p] = Append(@, "repoint")]
    /\ UNCHANGED <<now, req, pre, first, primaryIds, primaries,
                   existingEmails, existingPhones, hasNewData, res, overlaps>>

\* lines 110-123: reload the cluster and look for a new fact
Reload(p) ==
    /\ pc[p] = "reload"
    /\ LET allLinkedContacts == SelectLinked(contacts, primaries[p][1].id)
           emails == NewSet(FilterBoolean(MapEmail(allLinkedContacts)))
           phones == NewSet(FilterBoolean(MapPhone(allLinkedContacts)))
           new == HasNewData(req[p].email, req[p].phoneNumber, emails, phones)
       IN  /\ existingEmails' = [existingEmails EXCEPT ![p] = emails]
           /\ existingPhones' = [existingPhones EXCEPT ![p] = phones]
           /\ hasNewData' = [hasNewData EXCEPT ![p] = new]
           /\ pc' = [pc EXCEPT ![p] = IF new THEN "insertSecondary" ELSE "respond"]
    /\ log' = [log EXCEPT ![p] = Append(@, "reload")]
    /\ UNCHANGED <<contacts, now, req, pre, first, primaryIds, primaries, idx, res, overlaps>>

\* lines 124-130: insert the secondary that carries the new fact
NewSecondary(p) ==
    /\ pc[p] = "insertSecondary"
    /\ contacts' = InsertSecondary(contacts, req[p].email, req[p].phoneNumber,
                                   primaries[p][1].id, now)
    /\ existingEmails' = [existingEmails EXCEPT ![p] =
                            IF Falsy(req[p].email) THEN @ ELSE SetAdd(@, req[p].email)]
    /\ existingPhones' = [existingPhones EXCEPT ![p] =
                            IF Falsy(req[p].phoneNumber) THEN @ ELSE SetAdd(@, req[p].phoneNumber)]
    /\ pc' = [pc EXCEPT ![p] = "respond"]
    /\ log' = [log EXCEPT ![p] = Append(@, "insertSecondary")]
    /\ UNCHANGED <<now, req, pre, first, primaryIds, primaries, idx, hasNewData, res, overlaps>>

\* lines 135-147: list the secondaries and answer
Respond(p) ==
    /\ pc[p] = "respond"
    /\ LET finalSecondaries == SelectSecondaries(contacts, primaries[p][1].id)
       IN  res' = [res EXCEPT ![p] =
                     Ok(primaries[p][1].id, existingEmails[p], existingPhones[p],
                        MapId(finalSecondaries))]
    /\ pc' = [pc EXCEPT ![p] = "done"]
    /\ log' = [log EXCEPT ![p] = Append(@, "respond")]
    /\ Return(p)
    /\ UNCHANGED <<contacts, now, req, pre, first, overlaps>>

Step(p) ==
    \/ Match(p)
    \/ NewCustomer(p)
    \/ FetchPrimaries(p)
    \/ Demote(p)
    \/ Repoint(p)
    \/ Reload(p)
    \/ NewSecondary(p)
    \/ Respond(p)

\* Sequential execution: request 1 only, each request run to completion
\* before the next arrives.
Next ==
    \/ Tick
    \/ \E email \in EmailVals, phoneNumber \in PhoneVals : Receive(1, email, phoneNumber)
    \/ Step(1)

Spec == Init /\ [][Next]_vars

\* Concurrent execution: request 2 arrives while request 1 is in flight and
\* the two interleave at their store operations.
NextConc ==
    \/ Tick
    \/ \E email \in ConcEmailVals, phoneNumber \in ConcPhoneVals :
          Receive(1, email, phoneNumber)
    \/ \E email \in ConcEmailVals, phoneNumber \in ConcPhoneVals :
          Active(1) /\ Receive(2, email, phoneNumber)
    \/ \E p \in Procs : Step(p)

SpecConc == Init /\ [][NextConc]_vars

\* The errors a store operation may be rejected with.
Causes == {"SQLITE_BUSY", "SQLITE_CONSTRAINT"}

\* Variant: the catch block leaves the request where it is, and the rejected
\* operation is issued again.
Fail_Retry(p, cause) ==
    /\ Active(p)
    /\ log' = [log EXCEPT ![p] = Append(@, cause)]
    /\ UNCHANGED <<contacts, now, pc, req, pre, first, primaryIds, primaries, idx,
                   existingEmails, existingPhones, hasNewData, res, overlaps>>

\* lines 149-152: the store operation request p is about to issue is
\* rejected; the statement changes nothing, the catch block answers 500.
Fail(p, cause) ==
    /\ Active(p)
    /\ res' = [res EXCEPT ![p] = ServerError]
    /\ pc' = [pc EXCEPT ![p] = "done"]
    /\ log' = [log EXCEPT ![p] = Append(@, cause)]
    /\ Return(p)
    /\ UNCHANGED <<contacts, now, req, pre, first, overlaps>>

\* Sequential execution in which any store operation may fail.
NextFail ==
    \/ Tick
    \/ \E email \in ConcEmailVals, phoneNumber \in ConcPhoneVals :
          Receive(1, email, phoneNumber)
    \/ Step(1)
    \/ \E cause \in Causes : Fail(1, cause)

SpecFail == Init /\ [][NextFail]_vars

----------------------------------------------------------------------------
(* Vocabulary of the properties *)

\* request p has been answered with a success result
Completed(p) == pc[p] = "done" /\ res[p].status = 200

\* no request is in flight
Quiet == \A p \in Procs : ~Active(p)

\* a field of a request is present
Present(v) == v # Nil /\ v # ""

\* the rows of cs that carry the given email / phone number
WithEmail(cs, email) == {k \in DOMAIN cs : email # Nil /\ cs[k].email = email}
WithPhone(cs, phoneNumber) == {k \in DOMAIN cs : phoneNumber # Nil /\ cs[k].phoneNumber = phoneNumber}

\* the rows of cs the request of p matches
Matched(cs, p) == WithEmail(cs, req[p].email) \cup WithPhone(cs, req[p].phoneNumber)

\* the id of the primary that owns row k of cs
Owner(cs, k) == IF cs[k].linkedId = NoId THEN cs[k].id ELSE cs[k].linkedId

\* the primaries the request of p resolves to in cs
Roots(cs, p) == {Owner(cs, k) : k \in Matched(cs, p)}

\* the ids of the cluster of primary w in cs
Members(cs, w) == {cs[k].id : k \in {j \in DOMAIN cs : cs[j].id = w \/ cs[j].linkedId = w}}

\* the rows of cs are the first rows of ds, unchanged
Kept(cs, ds) == Len(cs) <= Len(ds) /\ \A k \in DOMAIN cs : ds[k] = cs[k]

\* the links of the rows of cs are the same in ds
SameLinks(cs, ds) ==
    /\ Len(cs) <= Len(ds)
    /\ \A k \in DOMAIN cs : /\ ds[k].linkPrecedence = cs[k].linkPrecedence
                            /\ ds[k].linkedId = cs[k].linkedId

WellLinked(cs) ==
    \A k \in DOMAIN cs :
        /\ cs[k].linkPrecedence = "primary" => cs[k].linkedId = NoId
        /\ cs[k].linkPrecedence = "secondary" =>
              /\ cs[k].linkedId # NoId
              /\ cs[k].linkedId # cs[k].id
              /\ \E j \in DOMAIN cs : /\ cs[j].id = cs[k].linkedId
                                      /\ cs[j].linkPrecedence = "primary"

----------------------------------------------------------------------------
(* Properties of sequential execution (Spec) *)

\* C1: between requests, every primary has no linkedId and every secondary
\* has a linkedId that is the id of an existing primary, other than itself.
C1_LinkInvariant == ~Active(1) => WellLinked(contacts)

\* C1 witness: a request has merged two clusters, the losing one with a child.
C1_Witness ==
    /\ Completed(1)
    /\ \E k, j \in DOMAIN pre[1] :
          /\ pre[1][k].linkPrecedence = "primary"
          /\ contacts[k].linkPrecedence = "secondary"
          /\ pre[1][j].linkedId = pre[1][k].id

\* C2: a valid request that matches no contact inserts exactly one row, a
\* primary without linkedId, modifies no existing row, and answers with the
\* id of the new row and no secondary.
C2_NewCustomer ==
    (/\ pc[1] = "done"
     /\ Present(req[1].email) \/ Present(req[1].phoneNumber)
     /\ Matched(pre[1], 1) = {})
    => /\ res[1].status = 200
       /\ Len(contacts) = Len(pre[1]) + 1
       /\ Kept(pre[1], contacts)
       /\ contacts[Len(contacts)].linkPrecedence = "primary"
       /\ contacts[Len(contacts)].linkedId = NoId
       /\ res[1].primaryContatctId = contacts[Len(contacts)].id
       /\ res[1].secondaryContactIds = <<>>

\* C2 witness: a new customer arrives at a table that already has contacts.
C2_Witness ==
    /\ Completed(1)
    /\ pre[1] # <<>>
    /\ Matched(pre[1], 1) = {}
    /\ Len(contacts) = Len(pre[1]) + 1

\* C3: a request whose email is the email of an existing contact and whose
\* phone number is present and on no contact inserts exactly one row, a
\* secondary of the primary of the matched cluster that stores the email and
\* the phone number of the request, and the phoneNumbers of the response
\* contain the new number.
C3_NovelPhone ==
    (/\ pc[1] = "done"
     /\ WithEmail(pre[1], req[1].email) # {}
     /\ Present(req[1].phoneNumber)
     /\ WithPhone(pre[1], req[1].phoneNumber) = {})
    => /\ res[1].status = 200
       /\ Len(contacts) = Len(pre[1]) + 1
       /\ LET new == contacts[Len(contacts)]
          IN  /\ new.linkPrecedence = "secondary"
              /\ \A k \in WithEmail(pre[1], req[1].email) :
                    /\ new.linkedId = Owner(pre[1], k)
                    /\ contacts[Owner(pre[1], k)].linkPrecedence = "primary"
              /\ new.linkedId = res[1].primaryContatctId
              /\ new.email = req[1].email
              /\ new.phoneNumber = req[1].phoneNumber
       /\ \E k \in DOMAIN res[1].phoneNumbers : res[1].phoneNumbers[k] = req[1].phoneNumber

\* C3 witness: the email matched a secondary of the cluster.
C3_Witness ==
    /\ Completed(1)
    /\ Present(req[1].phoneNumber)
    /\ WithPhone(pre[1], req[1].phoneNumber) = {}
    /\ \E k \in WithEmail(pre[1], req[1].email) : pre[1][k].linkPrecedence = "secondary"
    /\ Len(contacts) = Len(pre[1]) + 1

\* the rows that were there when request 1 arrived and are in the cluster of
\* the primary it answered with
OldCluster == {k \in DOMAIN pre[1] : contacts[k].id = res[1].primaryContatctId
                                      \/ contacts[k].linkedId = res[1].primaryContatctId}

\* C4: when every present field of the request is already on a contact of
\* the cluster left by the merge step, the request inserts no row.
C4_Redundant ==
    (/\ Completed(1)
     /\ Present(req[1].email) =>
           \E k \in OldCluster : contacts[k].email = req[1].email
     /\ Present(req[1].phoneNumber) =>
           \E k \in OldCluster : contacts[k].phoneNumber = req[1].phoneNumber)
    => Len(contacts) = Len(pre[1])

\* C4 witness: the email and the phone number came from two clusters that
\* this request merged.
C4_Witness ==
    /\ Completed(1)
    /\ Present(req[1].email) /\ Present(req[1].phoneNumber)
    /\ Cardinality(Roots(pre[1], 1)) = 2
    /\ \A k \in WithEmail(pre[1], req[1].email), j \in WithPhone(pre[1], req[1].phoneNumber) :
          Owner(pre[1], k) # Owner(pre[1], j)
    /\ Len(contacts) = Len(pre[1])

\* C5: when the request resolves to more than one primary, the response names
\* one of them, an oldest one; every other one is then a secondary of it, and
\* so is every contact that pointed at one of the others.
C5_Merge ==
    (/\ pc[1] = "done"
     /\ Cardinality(Roots(pre[1], 1)) > 1)
    => /\ res[1].status = 200
       /\ LET w == res[1].primaryContatctId
              losers == Roots(pre[1], 1) \ {w}
          IN  /\ w \in Roots(pre[1], 1)
              /\ contacts[w].linkPrecedence = "primary"
              /\ \A l \in losers :
                    /\ pre[1][w].createdAt <= pre[1][l].createdAt
                    /\ contacts[l].linkPrecedence = "secondary"
                    /\ contacts[l].linkedId = w
              /\ \A k \in DOMAIN pre[1] :
                    pre[1][k].linkedId \in losers => contacts[k].linkedId = w

\* C5 witness: the losing primary had a child.
C5_Witness ==
    /\ Completed(1)
    /\ Cardinality(Roots(pre[1], 1)) = 2
    /\ \E l \in Roots(pre[1], 1) :
          /\ l # res[1].primaryContatctId
          /\ \E k \in DOMAIN pre[1] : pre[1][k].linkedId = l

\* the primaries of r that are older than every other primary of r
Oldest(cs, r) == {a \in r : \A b \in r \ {a} : cs[a].createdAt < cs[b].createdAt}

\* request 1 bridges two clusters of cs: its email is on rows of one, its
\* phone number on rows of the other, and one primary is older than the other
Bridges(cs) ==
    /\ WithEmail(cs, req[1].email) # {}
    /\ WithPhone(cs, req[1].phoneNumber) # {}
    /\ \A k \in WithEmail(cs, req[1].email), j \in WithPhone(cs, req[1].phoneNumber) :
          Owner(cs, k) # Owner(cs, j)
    /\ Oldest(cs, Roots(cs, 1)) # {}

\* C6: a bridging request, whichever of the two clusters its email belongs
\* to, is answered with the older of the two primaries, whose cluster then
\* has exactly the contacts of the two clusters.
C6_BridgeCommutes ==
    (pc[1] = "done" /\ Bridges(pre[1]))
    => /\ res[1].status = 200
       /\ \A a \in Oldest(pre[1], Roots(pre[1], 1)) :
             /\ res[1].primaryContatctId = a
             /\ Members(contacts, a) = UNION {Members(pre[1], r) : r \in Roots(pre[1], 1)}

\* C6 witness: the email belongs to the younger cluster, the phone number to
\* the older one.
C6_Witness ==
    /\ Completed(1)
    /\ Bridges(pre[1])
    /\ \A k \in WithEmail(pre[1], req[1].email) :
          Owner(pre[1], k) \notin Oldest(pre[1], Roots(pre[1], 1))
    /\ Cardinality(Members(contacts, res[1].primaryContatctId)) > 2

\* C7: a request that repeats the request just answered gets the same
\* primaryContactId and the same emails, phoneNumbers and secondaryContactIds
\* as sets, inserts no row and changes no link.
C7_Idempotent ==
    (pc[1] = "done" /\ first[1].status = 200)
    => /\ res[1].status = 200
       /\ res[1].primaryContatctId = first[1].primaryContatctId
       /\ Range(res[1].emails) = Range(first[1].emails)
       /\ Range(res[1].phoneNumbers) = Range(first[1].phoneNumbers)
       /\ Range(res[1].secondaryContactIds) = Range(first[1].secondaryContactIds)
       /\ Len(contacts) = Len(pre[1])
       /\ SameLinks(pre[1], contacts)

\* C7 witness: the repeated request was first answered with two secondaries
\* and carried an absent field.
C7_Witness ==
    /\ Completed(1)
    /\ first[1].status = 200
    /\ Len(first[1].secondaryContactIds) >= 2
    /\ req[1].email = Nil

\* C10: a request with neither field present is refused with the client
\* error after no store operation, and the table is as it was.
C10_InvalidRequest ==
    (pc[1] = "done" /\ ~Present(req[1].email) /\ ~Present(req[1].phoneNumber))
    => /\ res[1] = BadRequest
       /\ log[1] = <<>>
       /\ contacts = pre[1]

\* C10 witness: the refused request carried an empty string, and the table
\* has a row with that value.
C10_Witness ==
    /\ pc[1] = "done"
    /\ req[1].email = "" /\ req[1].phoneNumber = Nil
    /\ res[1].status = 400
    /\ WithEmail(contacts, "") # {}

\* the rows of cs in the cluster of primary w
ClusterRows(cs, w) == {k \in DOMAIN cs : cs[k].id = w \/ cs[k].linkedId = w}

\* s lists every element of set t once, and nothing else
ListsOnce(s, t) == Range(s) = t /\ Len(s) = Cardinality(t)

\* C12: the response of a completed request lists, each once, the ids of the
\* contacts whose linkedId is primaryContactId in the final table, the
\* present emails of the cluster and its present phone numbers.
C12_ResponseIsFinalCluster ==
    Completed(1) =>
      LET w == res[1].primaryContatctId
      IN  /\ ListsOnce(res[1].secondaryContactIds,
                       {contacts[k].id : k \in {j \in DOMAIN contacts : contacts[j].linkedId = w}})
          /\ ListsOnce(res[1].emails,
                       {contacts[k].email : k \in {j \in ClusterRows(contacts, w) : Present(contacts[j].email)}})
          /\ ListsOnce(res[1].phoneNumbers,
                       {contacts[k].phoneNumber : k \in {j \in ClusterRows(contacts, w) : Present(contacts[j].phoneNumber)}})

\* C12 witness: the request merged two clusters, and two rows of the final
\* cluster carry the same email.
C12_Witness ==
    /\ Completed(1)
    /\ Cardinality(Roots(pre[1], 1)) = 2
    /\ \E j, k \in ClusterRows(contacts, res[1].primaryContatctId) :
          j # k /\ Present(contacts[j].email) /\ contacts[j].email = contacts[k].email

\* C14: when the request resolves to several primaries, the one answered is
\* the one created first and, among those created at the same time, the one
\* with the smallest id.
C14_OldestThenSmallestId ==
    (Completed(1) /\ Cardinality(Roots(pre[1], 1)) > 1)
    => LET w == res[1].primaryContatctId
       IN  /\ w \in Roots(pre[1], 1)
           /\ \A l \in Roots(pre[1], 1) \ {w} :
                 \/ pre[1][w].createdAt < pre[1][l].createdAt
                 \/ (pre[1][w].createdAt = pre[1][l].createdAt /\ w < l)

\* C15: between requests, two contacts that share a present email or a
\* present phone number have the same primary.
C15_OneClusterPerIdentifier ==
    ~Active(1) =>
      \A j, k \in DOMAIN contacts :
         (\/ (Present(contacts[j].email) /\ contacts[j].email = contacts[k].email)
          \/ (Present(contacts[j].phoneNumber) /\ contacts[j].phoneNumber = contacts[k].phoneNumber))
         => Owner(contacts, j) = Owner(contacts, k)

\* C15 witness: two secondaries carry the same email, which their primary
\* does not carry.
C15_Witness ==
    /\ Completed(1)
    /\ \E j, k \in DOMAIN contacts :
          /\ j # k
          /\ contacts[j].linkPrecedence = "secondary"
          /\ contacts[k].linkPrecedence = "secondary"
          /\ Present(contacts[j].email) /\ contacts[j].email = contacts[k].email
          /\ contacts[Owner(contacts, j)].email # contacts[j].email

\* the number of entries of s equal to v
RECURSIVE Count(_, _)
Count(s, v) == IF s = <<>> THEN 0 ELSE (IF Head(s) = v THEN 1 ELSE 0) + Count(Tail(s), v)

\* C16: the contacts a request matches resolve to at most two primaries, and
\* a request demotes at most one primary.
C16_AtMostTwoRoots ==
    /\ Cardinality(primaryIds[1]) <= 2
    /\ Active(1) => Cardinality(Roots(pre[1], 1)) <= 2
    /\ Count(log[1], "demote") <= 1

\* C16 witness: the request matched three rows, of two clusters.
C16_Witness ==
    /\ pc[1] = "fetchPrimaries"
    /\ Cardinality(Matched(pre[1], 1)) = 3
    /\ Cardinality(primaryIds[1]) = 2

\* C17: between requests, no contact is older than the primary it points at.
C17_PrimaryIsOldest ==
    ~Active(1) =>
      \A j, k \in DOMAIN contacts :
         contacts[k].linkedId = contacts[j].id => contacts[j].createdAt <= contacts[k].createdAt

\* C17 witness: a primary created later than another one was demoted under it.
C17_Witness ==
    /\ Completed(1)
    /\ \E j, k \in DOMAIN pre[1] :
          /\ pre[1][k].linkPrecedence = "primary"
          /\ contacts[k].linkedId = contacts[j].id
          /\ contacts[j].createdAt < contacts[k].createdAt

\* C18: in every step, a linkPrecedence that changes goes from primary to
\* secondary, in the demote step of a request that fetched several
\* primaries; and the linkedId of a secondary changes only in the re-point
\* step, when the contact it pointed at has just been demoted.
C18_LinkChanges ==
    [][\A k \in DOMAIN contacts :
          /\ contacts'[k].linkPrecedence # contacts[k].linkPrecedence =>
                /\ contacts[k].linkPrecedence = "primary"
                /\ contacts'[k].linkPrecedence = "secondary"
                /\ pc[1] = "demote"
                /\ Len(primaries[1]) > 1
          /\ (contacts[k].linkPrecedence = "secondary"
              /\ contacts'[k].linkedId # contacts[k].linkedId) =>
                /\ pc[1] = "repoint"
                /\ contacts[contacts[k].linkedId].linkPrecedence = "secondary"
                /\ contacts[contacts[k].linkedId].id \in Roots(pre[1], 1)
                /\ pre[1][contacts[k].linkedId].linkPrecedence = "primary"]_vars

\* C18 witness: the children of a demoted primary have been re-pointed.
C18_Witness ==
    /\ pc[1] = "reload"
    /\ \E k \in DOMAIN pre[1] :
          /\ pre[1][k].linkPrecedence = "secondary"
          /\ contacts[k].linkedId # pre[1][k].linkedId

\* C19: after the merge loop, applying the two updates again for the same
\* winner and the same losing primary leaves the table as it is.
C19_MergeStepIdempotent ==
    (pc[1] = "reload" /\ Len(primaries[1]) > 1)
    => \A i \in 2..Len(primaries[1]) :
          UpdateChildren(UpdateDemote(contacts, primaries[1][1].id, primaries[1][i].id),
                         primaries[1][1].id, primaries[1][i].id) = contacts

\* C19 witness: the merge loop has run, and the losing primary had a child.
C19_Witness ==
    /\ pc[1] = "reload" /\ Len(primaries[1]) > 1
    /\ \E k \in DOMAIN pre[1] : pre[1][k].linkedId = primaries[1][2].id

\* C20: the rows that were there when the request arrived are still there
\* with the same id, email, phoneNumber and createdAt, and those of a
\* cluster the request matches no contact of are unchanged.
C20_Frame ==
    /\ Len(pre[1]) <= Len(contacts)
    /\ \A k \in DOMAIN pre[1] :
          /\ k \in DOMAIN contacts
          /\ contacts[k].id = pre[1][k].id
          /\ contacts[k].email = pre[1][k].email
          /\ contacts[k].phoneNumber = pre[1][k].phoneNumber
          /\ contacts[k].createdAt = pre[1][k].createdAt
          /\ Owner(pre[1], k) \notin Roots(pre[1], 1) => contacts[k] = pre[1][k]

\* C20 witness: the request merged two clusters and a third one was there.
C20_Witness ==
    /\ Completed(1)
    /\ Cardinality(Roots(pre[1], 1)) = 2
    /\ \E k \in DOMAIN pre[1] : Owner(pre[1], k) \notin Roots(pre[1], 1)
    /\ contacts # pre[1]

----------------------------------------------------------------------------
(* Properties of concurrent execution (SpecConc) *)

\* C8: once the requests are answered, no two primaries share an email or a
\* phone number.
C8_NoCompetingPrimaries ==
    Quiet =>
      \A j, k \in DOMAIN contacts :
         (/\ j # k
          /\ contacts[j].linkPrecedence = "primary"
          /\ contacts[k].linkPrecedence = "primary")
         => /\ ~(contacts[j].email # Nil /\ contacts[j].email = contacts[k].email)
            /\ ~(contacts[j].phoneNumber # Nil /\ contacts[j].phoneNumber = contacts[k].phoneNumber)

\* C9: once a request that demoted a primary and a concurrent request that
\* inserted a secondary are both answered, no secondary points at a secondary.
C9_NoChainAfterMergeAndInsert ==
    (/\ Quiet
     /\ \E p, q \in Procs : /\ p # q
                            /\ "demote" \in Range(log[p])
                            /\ "insertSecondary" \in Range(log[q]))
    => \A k, j \in DOMAIN contacts :
          (contacts[k].linkPrecedence = "secondary" /\ contacts[j].id = contacts[k].linkedId)
          => contacts[j].linkPrecedence = "primary"

----------------------------------------------------------------------------
(* Properties of execution with store failures (SpecFail) *)

\* the positions of log[p] at which a store operation was rejected
Rejected(p) == {k \in DOMAIN log[p] : log[p][k] \in Causes}

\* C11: a rejected store operation is the last one the request issues, and
\* the request is then answered, with the same server error whatever the
\* cause.
C11_FailStops ==
    \A k \in Rejected(1) :
        /\ k = Len(log[1])
        /\ pc[1] = "done"
        /\ res[1] = ServerError

\* C11 witness: the rejected operation came after the merge had started.
C11_Witness ==
    /\ Rejected(1) # {}
    /\ pc[1] = "done"
    /\ \E k \in DOMAIN log[1] : log[1][k] = "demote"
    /\ log[1][Len(log[1])] = "SQLITE_CONSTRAINT"

\* C13: when a store operation of a request is rejected, the table is as it
\* was when the request arrived.
C13_AllOrNothing ==
    (pc[1] = "done" /\ Rejected(1) # {}) => contacts = pre[1]

====
